---- MODULE Spec2Model ----
(***************************************************************************)
(* A model of the ClusterExplorer React component                          *)
(* (src/frontend/src/components/ClusterExplorer.tsx).                      *)
(*                                                                         *)
(* The component holds two pieces of React state, selectedCluster and      *)
(* hoveredPoint, and receives the ClusterData snapshot as its `data` prop. *)
(* One effect, with dependencies [data, selectedCluster], draws into an    *)
(* <svg> with d3 and appends a tooltip <div> to document.body; its cleanup *)
(* removes that <div>.                                                     *)
(*                                                                         *)
(* One action is one UI event processed to completion: the handler, the    *)
(* re-render it causes, React's commit (the svg ref is attached or         *)
(* detached), the cleanup of the previous effect and the effect itself.    *)
(* The two other useState values of the component (showTooltip and         *)
(* tooltipPosition) are written and never read, and are left out.          *)
(*                                                                         *)
(* The module holds five specifications over the same variables:           *)
(*   Spec         the component under every sequence of events, the        *)
(*                pointer coordinates not told apart;                      *)
(*   SpecPointer  one snapshot per mounted component, the pointer          *)
(*                coordinates told apart and the pointer moving inside a   *)
(*                circle;                                                  *)
(*   SpecPure     the pure functions of the effect (scales, radius,        *)
(*                colour, cluster centres, keywords line), applied to      *)
(*                inputs of their own;                                     *)
(*   SpecApp      the search flow of App (src/unnamed/part_001) behind the *)
(*                controls of SearchBar (src/unnamed/part_000);            *)
(*   SpecExport   the copy buttons of ExportButtons                        *)
(*                (src/frontend/src/components/ExportButtons.tsx).         *)
(***************************************************************************)
EXTENDS Integers, Sequences, FiniteSets, TLC

(* ---------------------------------------------------------------------- *)
(* Bounds of the model                                                     *)
(* ---------------------------------------------------------------------- *)

\* The longest points sequence of a snapshot.
MaxPoints == 2

\* The largest coordinate: of the pointer, in pixels of the page, and of a
\* point given to the scales, in data units.
MaxCoord == 2

\* The largest citation_count given to the radius.
MaxCitations == 400

\* The longest keywords list of a hovered point.
MaxKeywords == 4

\* The most copies to the clipboard started in ExportButtons.
MaxCopies == 3

\* The largest cluster_id given to the colour: beyond the palette's length.
MaxClusterId == 12

(* ---------------------------------------------------------------------- *)
(* Values                                                                  *)
(* ---------------------------------------------------------------------- *)

\* null, for selectedCluster (useState<number | null>(null)); cluster ids
\* are non-negative.
NULL == -1

\* The cluster ids of points and the keys of `clusters`: two ids tell "the
\* selected cluster" from "another cluster", and a snapshot may leave either
\* out of `clusters` (an orphaned id) or out of its points (an empty cluster).
ClusterIds == 0 .. 1

\* colors.length
PaletteLength == 10

\* const width = 800; const height = 600;
Width == 800

Height == 600

\* const margin = { top: 20, right: 20, bottom: 20, left: 20 };
margin == [top |-> 20, right |-> 20, bottom |-> 20, left |-> 20]

\* A ClusterPoint: the i-th point of a snapshot, in cluster c.
Pt(i, c) == [id |-> i, x |-> i, y |-> c, cluster_id |-> c]

\* null, for hoveredPoint (useState<ClusterPoint | null>(null)).
NullPoint == [id |-> 0, x |-> 0, y |-> 0, cluster_id |-> NULL]

\* data.points: the sequences of at most MaxPoints points, one for each
\* multiset of cluster ids (the component treats the points alike, whatever
\* their order, so the ids are listed in ascending order).
PointSeqs ==
    UNION { { [i \in 1 .. n |-> Pt(i, f[i])] :
                f \in { g \in [1 .. n -> ClusterIds] :
                           \A i \in 1 .. n - 1 : g[i] <= g[i + 1] } } :
            n \in 0 .. MaxPoints }

\* data.message is optional: {} is absent, {s} is the string s.
Messages == { {}, {"Insufficient data"} }

\* A ClusterData snapshot; `clusters` is the set of its keys.
Snapshots ==
    [points : PointSeqs, clusters : SUBSET ClusterIds, message : Messages]

\* The prop of a component that is not mounted.
NoData == [points |-> << >>, clusters |-> {}, message |-> {}]

(* ---------------------------------------------------------------------- *)
(* State                                                                   *)
(* ---------------------------------------------------------------------- *)

VARIABLES
    mounted,          \* the component instance exists
    data,             \* the `data` prop of the last render
    selectedCluster,  \* React state
    hoveredPoint,     \* React state
    svgRef,           \* svgRef.current is an element (not null)
    circles,          \* the <circle> children of the svg, in order
    labels,           \* the <text class="cluster-label"> children of the svg
    handlerEnv,       \* what the handlers of `circles` closed over
    overlays,         \* the tooltip <div>s: node id -> attached, opacity, html
    cleanup,          \* the node the registered effect cleanup removes, or 0
    pointer,          \* the index of the circle the pointer is over, or 0
    effectTrace,      \* what the effect did in the last event
    lastSel,          \* history: the cluster id of the last click (point or
                      \* tile) if nothing was selected before it, else NULL
    pointerXY,        \* d3.pointer(event, document.body) while the pointer
                      \* is over a circle, else Origin
    call,             \* one application of a pure function of the effect:
                      \* the function, its input and its result
    app,              \* App: its React state and the request in flight
    exportButtons     \* ExportButtons: its React state, the clipboard
                      \* writes in flight and the timers not yet fired

vars ==
    << mounted, data, selectedCluster, hoveredPoint, svgRef, circles, labels,
       handlerEnv, overlays, cleanup, pointer, effectTrace, lastSel,
       pointerXY, call, app, exportButtons >>

\* The closure of handlers that do not exist.
NoEnv == [selectedCluster |-> NULL, tooltip |-> 0]

NoSel == NULL

\* The pointer coordinates kept while the pointer is over no circle.
Origin == << 0, 0 >>

\* No pure function is being applied.
NoCall == [fn |-> "none"]

\* A query as typed: its text without the white space around it, and
\* whether there is white space around it.
NoQuery == [text |-> "", padded |-> FALSE]

\* App after construction: useState(''), useState(null), useState(false),
\* useState(null), and no request sent.  null is {} and a value v is {v}.
AppInit ==
    [query |-> NoQuery, results |-> {}, loading |-> FALSE, error |-> {},
     inFlight |-> {}]

\* ExportButtons after construction: useState(null); no clipboard write is
\* in flight and no timer is set.  `copies` counts the copies started.
\* `copiedBy` is history: the copy whose success set `copied` last, 0 when
\* `copied` is null.
ExportInit ==
    [copied |-> {}, writes |-> {}, timers |-> << >>, copies |-> 0,
     copiedBy |-> 0]

\* The pointer after an event: its coordinates are xy if it is still over a
\* circle.  The event applies no pure function on its own.
Pointing(xy) ==
    /\ pointerXY' = IF pointer' = 0 THEN Origin ELSE xy
    /\ UNCHANGED << call, app, exportButtons >>

(* ---------------------------------------------------------------------- *)
(* Pure functions of the component                                         *)
(* ---------------------------------------------------------------------- *)

\* `if (data.message)`: undefined and "" are falsy.
Truthy(m) == \E s \in m : s # ""

\* The branch of the component's return.
View(d) == IF Truthy(d.message) THEN "fallback" ELSE "normal"

\* The legend tiles: Object.entries(data.clusters), in the normal branch.
LegendTiles(d) == IF View(d) = "normal" THEN d.clusters ELSE {}

\* {hoveredPoint && (...)}: the panel in the corner of the normal branch.
HoverPanel(d, hov) == View(d) = "normal" /\ hov # NullPoint

\* selectedClusterData = selectedCluster !== null ?
\* data.clusters[selectedCluster] : null, as the set of the keys it was read
\* from: empty for null and for undefined.
SelectedClusterData(d, sel) == IF sel # NULL THEN d.clusters \cap {sel} ELSE {}

\* Mutant of DetailsPanel: the panel is guarded by the selection alone.
DetailsPanelUnguarded(d, sel) == View(d) = "normal" /\ sel # NULL

\* {selectedClusterData && (...)}: the details panel of the normal branch.
DetailsPanel(d, sel) ==
    View(d) = "normal" /\ SelectedClusterData(d, sel) # {}

\* The render throws a TypeError: the details panel reads
\* selectedClusterData.size and selectedClusterData.top_keywords, which
\* throws when selectedClusterData is undefined.
RenderThrows(d, sel) ==
    DetailsPanel(d, sel) /\ SelectedClusterData(d, sel) = {}

\* selectedCluster === k ? null : k
Toggle(sel, k) == IF sel = k THEN NULL ELSE k

\* Mutant of FillAlpha: the points of other clusters are not dimmed.
FillAlphaNoDim(sel, c) == (70 * 255) \div 100

\* Math.floor(opacity * 255), opacity 0.7 or 0.2: the alpha byte of the fill.
FillAlpha(sel, c) ==
    IF sel = NULL \/ sel = c THEN (70 * 255) \div 100 ELSE (20 * 255) \div 100

\* const colors = [...]
colors ==
    << "#ef4444", "#22c55e", "#a855f7", "#f59e0b", "#ec4899",
       "#0ea5e9", "#10b981", "#f97316", "#8b5cf6", "#06b6d4" >>

\* Mutant of PaletteIndex: ids beyond the palette take its last colour.
PaletteIndexClamped(c) == IF c < Len(colors) THEN c ELSE Len(colors) - 1

\* d.cluster_id % colors.length
PaletteIndex(c) == c % Len(colors)

\* .attr('fill', ...): the palette colour and the alpha byte appended to it.
Fill(p, sel) ==
    [rgb |-> colors[PaletteIndex(p.cluster_id) + 1],
     alpha |-> FillAlpha(sel, p.cluster_id)]

\* .attr('stroke', ...)
Stroke(p) == colors[PaletteIndex(p.cluster_id) + 1]

\* One drawn circle: its datum, palette index and fill alpha.
Circle(p, sel) ==
    [d |-> p, color |-> p.cluster_id % PaletteLength,
     alpha |-> FillAlpha(sel, p.cluster_id)]

\* clusterCenters: one entry per key of data.clusters.
ClusterCenters(d) ==
    { [id |-> k,
       size |-> Cardinality({ i \in 1 .. Len(d.points) :
                                d.points[i].cluster_id = k })] :
        k \in d.clusters }

\* A pixel coordinate is a rational number num / den with den > 0.
Frac(n, d) == [num |-> n, den |-> d]

FracLeq(a, b) == a.num * b.den <= b.num * a.den

\* The fraction a is the integer k.
FracIs(a, k) == a.num = k * a.den

\* Mutant of Extent: the domain is a fixed range.
ExtentFixed(vals) == << 0, MaxCoord >>

\* d3.extent(data.points, d => d.x): the least and the greatest value.
Extent(vals) ==
    << CHOOSE v \in vals : \A w \in vals : v <= w,
       CHOOSE v \in vals : \A w \in vals : w <= v >>

XExtent(pts) == Extent({ pts[i].x : i \in 1 .. Len(pts) })

YExtent(pts) == Extent({ pts[i].y : i \in 1 .. Len(pts) })

\* .range([margin.left, width - margin.right])
XRange == << margin.left, Width - margin.right >>

\* Mutant of YRange: the y axis is not inverted.
YRangeNotInverted == << margin.top, Height - margin.bottom >>

\* .range([height - margin.bottom, margin.top])
YRange == << Height - margin.bottom, margin.top >>

\* Mutant of Normalize: a domain of zero width maps to the start of the range.
NormalizeToStart(a, b, v) == IF b - a # 0 THEN Frac(v - a, b - a) ELSE Frac(0, 1)

\* d3.scaleLinear().domain([a, b]), first half: the place of v in the domain,
\* (v - a) / (b - a), and 1/2 for a domain of zero width (b - a is 0, so the
\* scale takes the constant 0.5 in place of the division).  Extent gives
\* a <= b.
Normalize(a, b, v) == IF b - a # 0 THEN Frac(v - a, b - a) ELSE Frac(1, 2)

\* d3.scaleLinear().range([r0, r1]), second half: r0 * (1 - t) + r1 * t.
Interpolate(r0, r1, t) == Frac(r0 * t.den + (r1 - r0) * t.num, t.den)

\* The linear scale of domain dom and range rng, applied to v; the scale does
\* not clamp.
ScaleLinear(dom, rng, v) ==
    Interpolate(rng[1], rng[2], Normalize(dom[1], dom[2], v))

\* xScale and yScale of the effect, for the points pts.
XScale(pts, v) == ScaleLinear(XExtent(pts), XRange, v)

YScale(pts, v) == ScaleLinear(YExtent(pts), YRange, v)

\* The scale applied to the rational number f: (f - a) / (b - a) is
\* (f.num - a * f.den) / (b * f.den - a * f.den).
ScaleLinearFrac(dom, rng, f) ==
    ScaleLinear(<< dom[1] * f.den, dom[2] * f.den >>, rng, f.num)

RECURSIVE Sum(_, _)
\* The sum of the values f[i], i in S.
Sum(f, S) ==
    IF S = {} THEN 0
    ELSE LET i == CHOOSE j \in S : TRUE IN f[i] + Sum(f, S \ {i})

\* Mutant of ClusterPoints: the points are not filtered.
ClusterPointsAll(pts, k) == 1 .. Len(pts)

\* data.points.filter(p => p.cluster_id === parseInt(clusterId)), as the
\* indices of the points kept.
ClusterPoints(pts, k) == { i \in 1 .. Len(pts) : pts[i].cluster_id = k }

\* d3.mean(clusterPoints, p => p.x) || 0, for the values vals of the points
\* S: the mean of no point is undefined, and `|| 0` makes undefined, and a
\* mean of 0, 0.
MeanOrZero(vals, S) ==
    IF S = {} THEN Frac(0, 1) ELSE Frac(Sum(vals, S), Cardinality(S))

\* One entry of clusterCenters, and the x and y attributes of its label.
ClusterCenter(pts, k) ==
    LET S == ClusterPoints(pts, k)
        x == MeanOrZero([i \in 1 .. Len(pts) |-> pts[i].x], S)
        y == MeanOrZero([i \in 1 .. Len(pts) |-> pts[i].y], S)
    IN  [id |-> k, x |-> x, y |-> y, size |-> Cardinality(S),
         labelX |-> ScaleLinearFrac(XExtent(pts), XRange, x),
         labelY |-> ScaleLinearFrac(YExtent(pts), YRange, y)]

\* Mutant of Slice: the end index is included.
SliceInclusive(s, from, to) ==
    [j \in 1 .. ((IF to + 1 <= Len(s) THEN to + 1 ELSE Len(s)) - from) |->
        s[from + j]]

\* Array.prototype.slice(from, to), 0 <= from <= to: the elements of index
\* from .. to - 1 (from 0) that exist.
Slice(s, from, to) ==
    [j \in 1 .. ((IF to <= Len(s) THEN to ELSE Len(s)) - from) |-> s[from + j]]

RECURSIVE Join(_, _)
\* Array.prototype.join(sep), as the sequence of the pieces of the string:
\* the elements with sep between them, and nothing for an empty array.
Join(s, sep) ==
    IF Len(s) = 0 THEN << >>
    ELSE IF Len(s) = 1 THEN << s[1] >>
    ELSE << s[1], sep >> \o Join(Tail(s), sep)

\* d.keywords.slice(0, 3).join(', ')
KeywordsLine(kw) == Join(Slice(kw, 0, 3), ", ")

\* Mutant of Radius: the bonus grows in whole pixels.
RadiusWholePixels(c) ==
    4 * 100 + (IF c # NULL /\ c # 0
               THEN (IF c <= 3 * 100 THEN (c \div 100) * 100 ELSE 3 * 100)
               ELSE 0)

\* Mutant of Radius: the citation bonus has no cap.
RadiusUncapped(c) == 4 * 100 + (IF c # NULL /\ c # 0 THEN c ELSE 0)

\* .attr('r', ...) in hundredths of a pixel: baseRadius 4 plus
\* Math.min(citation_count / 100, 3), the bonus being 0 for a citation_count
\* that is undefined (NULL) or 0.
Radius(c) ==
    4 * 100 + (IF c # NULL /\ c # 0
               THEN (IF c <= 3 * 100 THEN c ELSE 3 * 100)
               ELSE 0)

\* Mutant of EffectGuard: the guard forgets the points.
EffectGuardNoLength(d, ref) == ~ref

\* Mutant of EffectGuard: the guard forgets the ref.
EffectGuardNoRef(d, ref) == Len(d.points) = 0

\* `if (!data.points.length || !svgRef.current) return;`
EffectGuard(d, ref) == Len(d.points) = 0 \/ ~ref

(* ---------------------------------------------------------------------- *)
(* The tooltip nodes                                                       *)
(* ---------------------------------------------------------------------- *)

Attached(ov) == { n \in DOMAIN ov : ov[n].attached }

\* Mutant of Remove: the node is hidden and stays in the document.
RemoveHides(ov, n) ==
    [m \in DOMAIN ov |-> IF m = n THEN [ov[m] EXCEPT !.opacity = 0]
                         ELSE ov[m]]

\* tooltip.remove()
Remove(ov, n) ==
    [m \in DOMAIN ov |-> IF m = n THEN [ov[m] EXCEPT !.attached = FALSE]
                         ELSE ov[m]]

\* Mutant of RunCleanup: the effect returns no cleanup.
RunCleanupSkipped(ov, cl) == ov

\* The cleanup React runs before the next effect and at unmount.
RunCleanup(ov, cl) == IF cl = 0 THEN ov ELSE Remove(ov, cl)

\* A node nothing refers to and the document does not hold no longer exists.
Collect(ov, env) ==
    [n \in { m \in DOMAIN ov : ov[m].attached \/ m = env.tooltip } |-> ov[n]]

Fresh(ov) == CHOOSE n \in 1 .. Cardinality(DOMAIN ov) + 1 : n \notin DOMAIN ov

\* d3.select('body').append('div') ... .style('opacity', 0)
AppendDiv(ov, n) ==
    [m \in DOMAIN ov \cup {n} |->
        IF m = n THEN [attached |-> TRUE, opacity |-> 0, html |-> NullPoint,
                       pos |-> << >>]
        ELSE ov[m]]

\* tooltip.transition().duration(200).style('opacity', o), and .html(...):
\* the values the node ends with.
Style(ov, n, o, h) ==
    [m \in DOMAIN ov |-> IF m = n THEN [ov[m] EXCEPT !.opacity = o, !.html = h]
                         ELSE ov[m]]

\* .style('left', (x + 10) + 'px').style('top', (y - 10) + 'px')
Place(ov, n, xy) ==
    [m \in DOMAIN ov |->
        IF m = n THEN [ov[m] EXCEPT !.pos = << xy[1] + 10, xy[2] - 10 >>]
        ELSE ov[m]]

(* ---------------------------------------------------------------------- *)
(* Render, commit and effect                                               *)
(* ---------------------------------------------------------------------- *)

\* The body of the effect after its guard: clear the svg, create the
\* tooltip, draw the circles and the labels, return the cleanup.
Draw(d, sel, ov) ==
    LET live == Collect(ov, NoEnv)
        t == Fresh(live)
    IN  /\ overlays' = AppendDiv(live, t)
        /\ circles' = [i \in 1 .. Len(d.points) |-> Circle(d.points[i], sel)]
        /\ labels' = ClusterCenters(d)
        /\ handlerEnv' = [selectedCluster |-> sel, tooltip |-> t]
        /\ cleanup' = t
        /\ pointer' = 0
        /\ effectTrace' = "draw"

\* What follows a handler: the render of (d, sel), the commit and, when a
\* dependency of the effect changed, the previous cleanup and the effect.
\* ov and ptr are the tooltip nodes and the pointer as the handler left them.
AfterRender(d, sel, ov, ptr, depsChanged) ==
    LET ref == (View(d) = "normal")
        kept == svgRef /\ ref
        env0 == IF kept THEN handlerEnv ELSE NoEnv
    IN  /\ svgRef' = ref
        /\ IF ~depsChanged
           THEN /\ circles' = IF kept THEN circles ELSE << >>
                /\ labels' = IF kept THEN labels ELSE {}
                /\ handlerEnv' = env0
                /\ pointer' = IF kept THEN ptr ELSE 0
                /\ overlays' = Collect(ov, env0)
                /\ cleanup' = cleanup
                /\ effectTrace' = "none"
           ELSE IF EffectGuard(d, ref)
           THEN /\ circles' = IF kept THEN circles ELSE << >>
                /\ labels' = IF kept THEN labels ELSE {}
                /\ handlerEnv' = env0
                /\ pointer' = IF kept THEN ptr ELSE 0
                /\ overlays' = Collect(RunCleanup(ov, cleanup), env0)
                /\ cleanup' = 0
                /\ effectTrace' = "guard"
           ELSE Draw(d, sel, RunCleanup(ov, cleanup))

(* ---------------------------------------------------------------------- *)
(* Actions                                                                 *)
(* ---------------------------------------------------------------------- *)

\* No component is mounted.
Unmounted ==
    /\ mounted = FALSE
    /\ data = NoData
    /\ selectedCluster = NULL
    /\ hoveredPoint = NullPoint
    /\ svgRef = FALSE
    /\ circles = << >>
    /\ labels = {}
    /\ handlerEnv = NoEnv
    /\ overlays = << >>
    /\ cleanup = 0
    /\ pointer = 0
    /\ effectTrace = "none"
    /\ lastSel = NoSel
    /\ pointerXY = Origin

Init ==
    /\ Unmounted
    /\ call = NoCall
    /\ app = AppInit
    /\ exportButtons = ExportInit

\* The parent renders <ClusterExplorer data={d} /> for the first time.
Mount(d) ==
    /\ ~mounted
    /\ mounted' = TRUE
    /\ data' = d
    /\ selectedCluster' = NULL
    /\ hoveredPoint' = NullPoint
    /\ lastSel' = NoSel
    /\ AfterRender(d, NULL, overlays, 0, TRUE)
    /\ Pointing(pointerXY)

\* The parent renders the component again with a new snapshot.
ReplaceData(d) ==
    /\ mounted
    /\ data' = d
    /\ UNCHANGED << mounted, selectedCluster, hoveredPoint, lastSel >>
    /\ AfterRender(d, selectedCluster, overlays, pointer, TRUE)
    /\ Pointing(pointerXY)

\* .on('mouseover', ...) of circle i, the pointer being at xy.
MouseOverAt(i, xy) ==
    /\ mounted /\ svgRef
    /\ i \in 1 .. Len(circles)
    /\ pointer = 0
    /\ hoveredPoint' = circles[i].d
    /\ UNCHANGED << mounted, data, selectedCluster, lastSel >>
    /\ AfterRender(data, selectedCluster,
                   Place(Style(overlays, handlerEnv.tooltip, 90, circles[i].d),
                         handlerEnv.tooltip, xy),
                   i, FALSE)
    /\ Pointing(xy)

\* The same with the pointer at the one place Spec tells apart.
MouseOver(i) == MouseOverAt(i, Origin)

\* The pointer moves to xy inside the circle it is over: the circles have no
\* 'mousemove' listener, so no code of the component runs.
PointerMove(xy) ==
    /\ mounted /\ svgRef
    /\ pointer \in 1 .. Len(circles)
    /\ xy # pointerXY
    /\ pointerXY' = xy
    /\ UNCHANGED << mounted, data, selectedCluster, hoveredPoint, svgRef,
                    circles, labels, handlerEnv, overlays, cleanup, pointer,
                    effectTrace, lastSel, call, app, exportButtons >>

\* Mutant of MouseOut: the handler clears the selection too.
MouseOutDeselects ==
    /\ mounted /\ svgRef
    /\ pointer \in 1 .. Len(circles)
    /\ hoveredPoint' = NullPoint
    /\ selectedCluster' = NULL
    /\ UNCHANGED << mounted, data, lastSel >>
    /\ AfterRender(data, NULL,
                   Style(overlays, handlerEnv.tooltip, 0,
                         overlays[handlerEnv.tooltip].html),
                   0, selectedCluster # NULL)
    /\ Pointing(pointerXY)

\* .on('mouseout', ...) of the circle the pointer is over.
MouseOut ==
    /\ mounted /\ svgRef
    /\ pointer \in 1 .. Len(circles)
    /\ hoveredPoint' = NullPoint
    /\ UNCHANGED << mounted, data, selectedCluster, lastSel >>
    /\ AfterRender(data, selectedCluster,
                   Style(overlays, handlerEnv.tooltip, 0,
                         overlays[handlerEnv.tooltip].html),
                   0, FALSE)
    /\ Pointing(pointerXY)

\* .on('click', ...) of circle i: the toggle reads the selectedCluster the
\* handler closed over.
PointClick(i) ==
    /\ mounted /\ svgRef
    /\ i \in 1 .. Len(circles)
    /\ LET k == circles[i].d.cluster_id
           sel == Toggle(handlerEnv.selectedCluster, k)
       IN  /\ selectedCluster' = sel
           /\ lastSel' = IF selectedCluster = NULL THEN k ELSE NULL
           /\ UNCHANGED << mounted, data, hoveredPoint >>
           /\ AfterRender(data, sel, overlays, pointer, sel # selectedCluster)
           /\ Pointing(pointerXY)

\* onClick of the legend tile of cluster k.
TileClick(k) ==
    /\ mounted
    /\ k \in LegendTiles(data)
    /\ LET sel == Toggle(selectedCluster, k)
       IN  /\ selectedCluster' = sel
           /\ lastSel' = IF selectedCluster = NULL THEN k ELSE NULL
           /\ UNCHANGED << mounted, data, hoveredPoint >>
           /\ AfterRender(data, sel, overlays, pointer, sel # selectedCluster)
           /\ Pointing(pointerXY)

\* The parent stops rendering the component: React runs the cleanup and
\* drops the component's DOM and state.
Unmount ==
    /\ mounted
    /\ mounted' = FALSE
    /\ data' = NoData
    /\ selectedCluster' = NULL
    /\ hoveredPoint' = NullPoint
    /\ lastSel' = NoSel
    /\ svgRef' = FALSE
    /\ circles' = << >>
    /\ labels' = {}
    /\ handlerEnv' = NoEnv
    /\ overlays' = Collect(RunCleanup(overlays, cleanup), NoEnv)
    /\ cleanup' = 0
    /\ pointer' = 0
    /\ effectTrace' = "none"
    /\ Pointing(pointerXY)

Next ==
    \/ \E d \in Snapshots : Mount(d)
    \/ \E d \in Snapshots : ReplaceData(d)
    \/ \E i \in 1 .. MaxPoints : MouseOver(i)
    \/ MouseOut
    \/ \E i \in 1 .. MaxPoints : PointClick(i)
    \/ \E k \in ClusterIds : TileClick(k)
    \/ Unmount

Spec == Init /\ [][Next]_vars

\* The places of the pointer.
Positions == (0 .. MaxCoord) \X (0 .. MaxCoord)

\* One mounted component and the pointer over its drawing, the places of
\* the pointer told apart.
NextPointer ==
    \/ \E d \in Snapshots : Mount(d)
    \/ \E i \in 1 .. MaxPoints : \E xy \in Positions : MouseOverAt(i, xy)
    \/ \E xy \in Positions : PointerMove(xy)
    \/ MouseOut
    \/ \E i \in 1 .. MaxPoints : PointClick(i)
    \/ \E k \in ClusterIds : TileClick(k)
    \/ Unmount

SpecPointer == Init /\ [][NextPointer]_vars

(* ---------------------------------------------------------------------- *)
(* The pure functions of the effect, applied to inputs of their own        *)
(* ---------------------------------------------------------------------- *)

\* The x and y of a point.
Coords == 0 .. MaxCoord

\* The points given to the scales: their x and y.
ScaleInputs ==
    UNION { [1 .. n -> [x : Coords, y : Coords]] : n \in 0 .. MaxPoints }

\* citation_count?: number -- undefined (NULL) or a count.
Citations == {NULL} \cup (0 .. MaxCitations)

\* The inputs of a circle's colour: the point (its cluster_id and another of
\* its fields), the selectedCluster of the render, and whether the point is
\* the hoveredPoint.
ColorInputs ==
    [p : [cluster_id : 0 .. MaxClusterId, year : {2020, 2023}],
     sel : {NULL, 0, 1},
     hovered : BOOLEAN]

\* Three points of one cluster: (0, 0), (2, 0) and (1, 2).
CentroidExample ==
    [points |-> << [x |-> 0, y |-> 0, cluster_id |-> 0],
                   [x |-> 2, y |-> 0, cluster_id |-> 0],
                   [x |-> 1, y |-> 2, cluster_id |-> 0] >>,
     clusters |-> {0}]

\* The x and y of the points given to clusterCenters.
CentroidCoords == 0 .. 2

\* The snapshots given to clusterCenters: points with their x, y and
\* cluster_id, and the keys of clusters.
CentroidInputs ==
    [points : UNION { [1 .. n -> [x : CentroidCoords, y : CentroidCoords,
                                  cluster_id : ClusterIds]] :
                        n \in 0 .. MaxPoints },
     clusters : SUBSET ClusterIds]
    \cup {CentroidExample}

\* ClusterPoint.keywords: string[]
KeywordLists ==
    UNION { [1 .. n -> {"a", "b", "c", "d"}] : n \in 0 .. MaxKeywords }

\* The applications to come.
Calls ==
    { [fn |-> "scale", in |-> pts, done |-> FALSE] : pts \in ScaleInputs }
    \cup { [fn |-> "radius", in |-> c, done |-> FALSE] : c \in Citations }
    \cup { [fn |-> "color", in |-> q, done |-> FALSE] : q \in ColorInputs }
    \cup { [fn |-> "centroid", in |-> d, done |-> FALSE] :
             d \in CentroidInputs }
    \cup { [fn |-> "keywords", in |-> kw, done |-> FALSE] :
             kw \in KeywordLists }

componentVars ==
    << mounted, data, selectedCluster, hoveredPoint, svgRef, circles, labels,
       handlerEnv, overlays, cleanup, pointer, effectTrace, lastSel,
       pointerXY >>

InitPure ==
    /\ Unmounted
    /\ call \in Calls
    /\ app = AppInit
    /\ exportButtons = ExportInit

\* The effect's scales for the points call.in, past the effect's guard (the
\* svg being rendered): cx and cy of every circle, and the two scales as
\* functions on Coords.
ApplyScales ==
    /\ call.fn = "scale" /\ ~call.done
    /\ ~EffectGuard([points |-> call.in], TRUE)
    /\ call' = [fn |-> "scale", in |-> call.in, done |-> TRUE,
                out |-> [cx |-> [i \in 1 .. Len(call.in) |->
                                   XScale(call.in, call.in[i].x)],
                         cy |-> [i \in 1 .. Len(call.in) |->
                                   YScale(call.in, call.in[i].y)],
                         sx |-> [v \in Coords |-> XScale(call.in, v)],
                         sy |-> [v \in Coords |-> YScale(call.in, v)]]]
    /\ UNCHANGED << componentVars, app, exportButtons >>

\* The radius of the circle of a point whose citation_count is call.in.
ApplyRadius ==
    /\ call.fn = "radius" /\ ~call.done
    /\ call' = [fn |-> "radius", in |-> call.in, done |-> TRUE,
                out |-> Radius(call.in)]
    /\ UNCHANGED << componentVars, app, exportButtons >>

\* The fill and the stroke of the circle of the point call.in.p.
ApplyColor ==
    /\ call.fn = "color" /\ ~call.done
    /\ call' = [fn |-> "color", in |-> call.in, done |-> TRUE,
                out |-> [fill |-> Fill(call.in.p, call.in.sel),
                         stroke |-> Stroke(call.in.p)]]
    /\ UNCHANGED << componentVars, app, exportButtons >>

\* clusterCenters and the labels of the snapshot call.in, past the effect's
\* guard: one entry for each key of clusters.
ApplyCentroids ==
    /\ call.fn = "centroid" /\ ~call.done
    /\ ~EffectGuard(call.in, TRUE)
    /\ call' = [fn |-> "centroid", in |-> call.in, done |-> TRUE,
                out |-> [k \in call.in.clusters |->
                            ClusterCenter(call.in.points, k)]]
    /\ UNCHANGED << componentVars, app, exportButtons >>

\* The Keywords line of a hovered point whose keywords are call.in: in the
\* tooltip <div> and in the panel of the normal branch.
ApplyKeywords ==
    /\ call.fn = "keywords" /\ ~call.done
    /\ call' = [fn |-> "keywords", in |-> call.in, done |-> TRUE,
                out |-> [tooltip |-> KeywordsLine(call.in),
                         panel |-> KeywordsLine(call.in)]]
    /\ UNCHANGED << componentVars, app, exportButtons >>

NextPure ==
    \/ ApplyScales
    \/ ApplyRadius
    \/ ApplyColor
    \/ ApplyCentroids
    \/ ApplyKeywords

SpecPure == InitPure /\ [][NextPure]_vars

(* ---------------------------------------------------------------------- *)
(* App: the search flow (src/unnamed/part_001) and the controls of         *)
(* SearchBar (src/unnamed/part_000)                                        *)
(* ---------------------------------------------------------------------- *)

\* The texts of a query: none, and the quick searches of SearchBar.
QueryTexts ==
    { "", "SSVEP non-invasive", "motor imagery EEG", "P300 brain interface",
      "neural prosthesis", "BCI classification" }

Queries == [text : QueryTexts, padded : BOOLEAN]

\* query.trim()
Trim(q) == q.text

\* The responses to a request for the text t.
Responses(t) == { [query |-> t, papers |-> n] : n \in {0, 8} }

\* err instanceof Error ? err.message : 'An error occurred'
ErrorMessages == { "Network Error", "", "An error occurred" }

\* What no action of App touches.
outsideApp == << componentVars, call, exportButtons >>

\* onChange of the input and onClick of a quick search: both are disabled
\* while loading.
SetQuery(q) ==
    /\ ~app.loading
    /\ q # app.query
    /\ app' = [app EXCEPT !.query = q]
    /\ UNCHANGED outsideApp

\* Mutant of HandleSearch: the results of the search before are kept.
HandleSearchKeepsResults ==
    /\ ~app.loading
    /\ Trim(app.query) # ""
    /\ app' = [app EXCEPT !.loading = TRUE, !.error = {},
                          !.inFlight = { [query |-> Trim(app.query),
                                          max_results |-> 8] }]
    /\ UNCHANGED outsideApp

\* handleSearch up to its await.  It is reached from the search icon (not
\* rendered while loading), from the button (disabled while loading) and
\* from Enter in the input (disabled while loading); for a query that trims
\* to nothing it returns at once.
HandleSearch ==
    /\ ~app.loading
    /\ Trim(app.query) # ""
    /\ app' = [app EXCEPT !.loading = TRUE, !.error = {}, !.results = {},
                          !.inFlight = { [query |-> Trim(app.query),
                                          max_results |-> 8] }]
    /\ UNCHANGED outsideApp

\* handleSearch after its await, the request fulfilled with r:
\* setResults(response), then finally setLoading(false).
QueryResolved(r) ==
    /\ \E req \in app.inFlight : r \in Responses(req.query)
    /\ app' = [app EXCEPT !.results = {r}, !.loading = FALSE, !.inFlight = {}]
    /\ UNCHANGED outsideApp

\* handleSearch after its await, the request rejected: setError(...), then
\* finally setLoading(false).
QueryRejected(m) ==
    /\ app.inFlight # {}
    /\ app' = [app EXCEPT !.error = {m}, !.loading = FALSE, !.inFlight = {}]
    /\ UNCHANGED outsideApp

\* handleClear: the Clear button is rendered for a non-empty value and is
\* disabled while loading.
HandleClear ==
    /\ ~app.loading
    /\ app.query # NoQuery
    /\ app' = [app EXCEPT !.query = NoQuery, !.results = {}, !.error = {}]
    /\ UNCHANGED outsideApp

NextApp ==
    \/ \E q \in Queries : SetQuery(q)
    \/ HandleSearch
    \/ \E t \in QueryTexts : \E r \in Responses(t) : QueryResolved(r)
    \/ \E m \in ErrorMessages : QueryRejected(m)
    \/ HandleClear

SpecApp == Init /\ [][NextApp]_vars

(* ---------------------------------------------------------------------- *)
(* ExportButtons: the copy buttons and the 'copied' indicator              *)
(* (src/frontend/src/components/ExportButtons.tsx)                         *)
(* ---------------------------------------------------------------------- *)

\* The `type` argument of copyToClipboard.
CopyTypes == { "bibtex", "tldr" }

\* What no action of ExportButtons touches.
outsideExport == << componentVars, call, app >>

\* handleBibTeXCopy / handleTLDRCopy: copyToClipboard up to its await; the
\* n-th copy started.
CopyClick(type) ==
    /\ exportButtons.copies < MaxCopies
    /\ exportButtons' =
          [exportButtons EXCEPT
              !.copies = @ + 1,
              !.writes = @ \cup { [type |-> type, n |-> exportButtons.copies + 1] }]
    /\ UNCHANGED outsideExport

\* copyToClipboard after its await, the write w fulfilled: setCopied(type),
\* setTimeout(() => setCopied(null), 2000).
WriteResolved(w) ==
    /\ w \in exportButtons.writes
    /\ exportButtons' =
          [exportButtons EXCEPT
              !.writes = @ \ {w},
              !.copied = {w.type},
              !.copiedBy = w.n,
              !.timers = Append(@, w.n)]
    /\ UNCHANGED outsideExport

\* copyToClipboard after its await, the write w rejected: console.error.
WriteRejected(w) ==
    /\ w \in exportButtons.writes
    /\ exportButtons' = [exportButtons EXCEPT !.writes = @ \ {w}]
    /\ UNCHANGED outsideExport

\* A timer fires: setCopied(null).  All timers have the delay 2000, so they
\* fire in the order they were set; none is ever cancelled.
TimerFires ==
    /\ exportButtons.timers # << >>
    /\ exportButtons' =
          [exportButtons EXCEPT
              !.timers = Tail(@), !.copied = {}, !.copiedBy = 0]
    /\ UNCHANGED outsideExport

\* The writes there may be.
Writes == [type : CopyTypes, n : 1 .. MaxCopies]

NextExport ==
    \/ \E type \in CopyTypes : CopyClick(type)
    \/ \E w \in Writes : WriteResolved(w)
    \/ \E w \in Writes : WriteRejected(w)
    \/ TimerFires

SpecExport == Init /\ [][NextExport]_vars

(* ---------------------------------------------------------------------- *)
(* What the claims speak of                                                *)
(* ---------------------------------------------------------------------- *)

\* A tooltip <div> is in the document and not transparent.
TooltipVisible ==
    \E n \in DOMAIN overlays : overlays[n].attached /\ overlays[n].opacity > 0

AnyMouseOver == \E i \in 1 .. MaxPoints : MouseOver(i)

AnyPointClick == \E i \in 1 .. MaxPoints : PointClick(i)

AnyTileClick == \E k \in ClusterIds : TileClick(k)

AnyReplaceData == \E d \in Snapshots : ReplaceData(d)

\* The circles a draw of the current snapshot with the current selection gives.
ExpectedCircles ==
    [i \in 1 .. Len(data.points) |-> Circle(data.points[i], selectedCluster)]

(* ---------------------------------------------------------------------- *)
(* Claims                                                                  *)
(* ---------------------------------------------------------------------- *)

\* C1: a click on a drawn point of cluster k, or on the legend tile of
\* cluster k, sets selectedCluster to none if it was k before the click and
\* to k otherwise.
C1_ClickToggles ==
    [][ /\ \A i \in 1 .. MaxPoints :
              PointClick(i) =>
                  selectedCluster' =
                      IF selectedCluster = circles[i].d.cluster_id
                      THEN NULL ELSE circles[i].d.cluster_id
        /\ \A k \in ClusterIds :
              TileClick(k) =>
                  selectedCluster' = IF selectedCluster = k THEN NULL ELSE k
      ]_vars

\* C2: when a new snapshot replaces the current one, hoveredPoint and
\* selectedCluster are both empty afterwards.
C2_ReplacementResets ==
    [][ AnyReplaceData =>
            hoveredPoint' = NullPoint /\ selectedCluster' = NULL ]_vars

\* C3: from selectedCluster unset, two consecutive clicks for the same
\* cluster id k (point or tile, in any mix) leave selectedCluster unset.
\* lastSel = k says that the previous click was for k and started from unset.
C3_ToggleTwice ==
    [][ \A k \in ClusterIds :
            ( /\ lastSel = k
              /\ \/ TileClick(k)
                 \/ \E i \in 1 .. MaxPoints :
                        PointClick(i) /\ circles[i].d.cluster_id = k )
            => selectedCluster' = NULL ]_vars

\* C4: when the pointer enters a point, hoveredPoint becomes that point and
\* the tooltip is visible; when it leaves, hoveredPoint becomes none and the
\* tooltip is hidden.
C4_HoverTransitions ==
    [][ /\ \A i \in 1 .. MaxPoints :
              MouseOver(i) =>
                  hoveredPoint' = circles[i].d /\ TooltipVisible'
        /\ MouseOut => hoveredPoint' = NullPoint /\ ~TooltipVisible'
      ]_vars

\* C5: a pointer enter or leave never changes selectedCluster, a click on a
\* point or a legend tile never changes hoveredPoint, and while the component
\* lives nothing but enter/leave, click and snapshot replacement changes
\* either.  (The first two conjuncts are stated by contraposition: a step
\* that changes selectedCluster is no enter or leave, a step that changes
\* hoveredPoint is no click.)
C5_IndependentAxes ==
    [][ /\ selectedCluster' # selectedCluster => ~(AnyMouseOver \/ MouseOut)
        /\ hoveredPoint' # hoveredPoint => ~(AnyPointClick \/ AnyTileClick)
        /\ ( /\ mounted /\ mounted'
             /\ selectedCluster' # selectedCluster \/ hoveredPoint' # hoveredPoint )
           => \/ AnyMouseOver \/ MouseOut
              \/ AnyPointClick \/ AnyTileClick
              \/ AnyReplaceData
      ]_vars

\* C5 witness: a point is hovered (the pointer is over its circle) while a
\* cluster is selected.
C5_Witness ==
    /\ mounted /\ pointer # 0
    /\ hoveredPoint # NullPoint /\ selectedCluster # NULL

\* C6: when selectedCluster is k, every drawn point of another cluster has a
\* strictly lower fill opacity than every drawn point of cluster k.
C6_Dimming ==
    (mounted /\ selectedCluster # NULL) =>
        \A i, j \in 1 .. Len(circles) :
            ( /\ circles[i].d.cluster_id # selectedCluster
              /\ circles[j].d.cluster_id = selectedCluster )
            => circles[i].alpha < circles[j].alpha

\* C7: for a snapshot with a non-empty message only the fallback panel is
\* rendered: no points, labels, legend tiles or tooltip, and the effect
\* computed no scales for it.
C7_MessageFallback ==
    (mounted /\ Truthy(data.message)) =>
        /\ View(data) = "fallback"
        /\ ~svgRef
        /\ circles = << >>
        /\ labels = {}
        /\ LegendTiles(data) = {}
        /\ Attached(overlays) = {}
        /\ ~HoverPanel(data, hoveredPoint)
        /\ effectTrace # "draw"

\* C7 witness: a snapshot with a message, and with points, arrived after a
\* snapshot that was drawn and whose point was hovered.
C7_Witness ==
    /\ mounted /\ Truthy(data.message)
    /\ Len(data.points) > 0
    /\ hoveredPoint # NullPoint

\* C8: for a snapshot with no points and no message the fallback panel is
\* rendered.
C8_EmptyPointsFallback ==
    (mounted /\ Len(data.points) = 0 /\ data.message = {}) =>
        View(data) = "fallback"

\* C9: the circles on the drawing surface are exactly those of the current
\* snapshot's points, drawn with the current selectedCluster.
C9_NoStaleCircles == svgRef => circles = ExpectedCircles

C11_HoveredTooltipShown ==
    ( /\ mounted /\ hoveredPoint # NullPoint
      /\ svgRef /\ circles = ExpectedCircles
      /\ selectedCluster = hoveredPoint.cluster_id
      /\ lastSel = selectedCluster ) =>
        \E n \in DOMAIN overlays :
            /\ overlays[n].attached
            /\ overlays[n].opacity > 0
            /\ overlays[n].html = hoveredPoint

\* C12: while the component lives, a step that changes only
\* hoveredPoint or only selectedCluster does not run the drawing effect, so
\* the extents and the two scales are not computed again.
C12_ScalesOnlyOnPoints ==
    [][ ( /\ mounted /\ mounted'
          /\ selectedCluster' # selectedCluster \/ hoveredPoint' # hoveredPoint )
        => effectTrace' # "draw" ]_vars

\* C13: a cluster id that is a key of data.clusters and the cluster_id of no
\* point of the snapshot has no label on the drawing surface.
C13_NoLabelForEmptyCluster ==
    mounted =>
        \A k \in data.clusters :
            (\A i \in 1 .. Len(data.points) : data.points[i].cluster_id # k)
            => ~ \E l \in labels : l.id = k

\* C14: in the normal view, a point whose cluster_id is no key of
\* data.clusters is drawn with palette index cluster_id mod PaletteLength,
\* has no centroid label and no legend tile, and the render raises no error,
\* whatever is selected (a click on the point selects the orphaned id).
C14_OrphanedClusterId ==
    (mounted /\ svgRef) =>
        \A i \in 1 .. Len(data.points) :
            data.points[i].cluster_id \notin data.clusters =>
                /\ i \in 1 .. Len(circles)
                /\ circles[i].d = data.points[i]
                /\ circles[i].color = data.points[i].cluster_id % PaletteLength
                /\ ~ \E l \in labels : l.id = data.points[i].cluster_id
                /\ data.points[i].cluster_id \notin LegendTiles(data)
                /\ ~RenderThrows(data, selectedCluster)
                /\ ~DetailsPanel(data, data.points[i].cluster_id)

\* C14 witness: a click on a point of an orphaned cluster id has selected
\* that id, and the point is drawn.
C14_Witness ==
    /\ mounted /\ svgRef
    /\ selectedCluster # NULL /\ selectedCluster \notin data.clusters
    /\ \E i \in 1 .. Len(data.points) :
          data.points[i].cluster_id = selectedCluster

\* C15: while the pointer is over a point, the tooltip is placed at the
\* latest pointer coordinates, offset by +10 and -10, after every move.
C15_TooltipFollowsPointer ==
    (mounted /\ pointer # 0 /\ hoveredPoint # NullPoint) =>
        \E n \in DOMAIN overlays :
            /\ overlays[n].attached
            /\ overlays[n].pos = << pointerXY[1] + 10, pointerXY[2] - 10 >>

ScalesApplied == call.fn = "scale" /\ call.done

\* C17: when all points have the same x, the cx of every circle is the
\* midpoint of [left, W - right]; when all have the same y, the cy of every
\* circle is the midpoint of [top, H - bottom]; nothing is divided by zero.
C17_ZeroWidthDomain ==
    ScalesApplied =>
        LET pts == call.in
            n == Len(pts)
        IN  /\ (\A i, j \in 1 .. n : pts[i].x = pts[j].x) =>
                  \A i \in 1 .. n :
                      /\ call.out.cx[i].den > 0
                      /\ 2 * call.out.cx[i].num =
                            (margin.left + (Width - margin.right))
                                * call.out.cx[i].den
            /\ (\A i, j \in 1 .. n : pts[i].y = pts[j].y) =>
                  \A i \in 1 .. n :
                      /\ call.out.cy[i].den > 0
                      /\ 2 * call.out.cy[i].num =
                            (margin.top + (Height - margin.bottom))
                                * call.out.cy[i].den

\* C17 witness: the scales were applied to several points with one x and
\* different y.
C17_Witness ==
    /\ ScalesApplied
    /\ Len(call.in) > 1
    /\ \A i, j \in 1 .. Len(call.in) : call.in[i].x = call.in[j].x
    /\ \E i, j \in 1 .. Len(call.in) : call.in[i].y # call.in[j].y

\* C18: for every non-empty sequence of points, xScale is non-decreasing and
\* yScale is non-increasing.
C18_Monotone ==
    ScalesApplied =>
        \A v1, v2 \in Coords :
            v1 < v2 =>
                /\ FracLeq(call.out.sx[v1], call.out.sx[v2])
                /\ FracLeq(call.out.sy[v2], call.out.sy[v1])

\* C18 witness: scales of a domain that is not of zero width, xScale
\* increasing and yScale decreasing between two values.
C18_Witness ==
    /\ ScalesApplied
    /\ \E v1, v2 \in Coords :
          /\ v1 < v2
          /\ ~FracLeq(call.out.sx[v2], call.out.sx[v1])
          /\ ~FracLeq(call.out.sy[v1], call.out.sy[v2])

\* C19: when min(x) < max(x) and min(y) < max(y), xScale maps min(x) to 20
\* and max(x) to 780, yScale maps min(y) to 580 and max(y) to 20, and every
\* circle is inside the margin box; the domain is the extent of the points.
C19_ExtentToMargins ==
    ScalesApplied =>
        LET pts == call.in
            xs == { pts[i].x : i \in 1 .. Len(pts) }
            ys == { pts[i].y : i \in 1 .. Len(pts) }
            minX == CHOOSE v \in xs : \A w \in xs : v <= w
            maxX == CHOOSE v \in xs : \A w \in xs : w <= v
            minY == CHOOSE v \in ys : \A w \in ys : v <= w
            maxY == CHOOSE v \in ys : \A w \in ys : w <= v
        IN  (minX < maxX /\ minY < maxY) =>
                /\ FracIs(call.out.sx[minX], 20)
                /\ FracIs(call.out.sx[maxX], 780)
                /\ FracIs(call.out.sy[minY], 580)
                /\ FracIs(call.out.sy[maxY], 20)
                /\ \A i \in 1 .. Len(pts) :
                      /\ FracLeq(Frac(20, 1), call.out.cx[i])
                      /\ FracLeq(call.out.cx[i], Frac(780, 1))
                      /\ FracLeq(Frac(20, 1), call.out.cy[i])
                      /\ FracLeq(call.out.cy[i], Frac(580, 1))

\* C19 witness: the scales were applied to points whose extent is narrower
\* than the coordinates go, in x and in y.
C19_Witness ==
    /\ ScalesApplied
    /\ \E i, j \in 1 .. Len(call.in) :
          /\ call.in[i].x < call.in[j].x
          /\ call.in[i].y # call.in[j].y
    /\ \A i \in 1 .. Len(call.in) : call.in[i].x > 0 /\ call.in[i].y > 0

\* C20: for a citation_count that is absent or any non-negative integer, the
\* radius is at least 4 and at most 7 (in hundredths: 400 and 700).
C20_RadiusBounds ==
    (call.fn = "radius" /\ call.done) =>
        /\ 4 * 100 <= call.out
        /\ call.out <= 7 * 100

\* C20 witness: the radius of a point with more than 300 citations.
C20_Witness ==
    /\ call.fn = "radius" /\ call.done
    /\ call.in > 3 * 100
    /\ call.out = 7 * 100

\* C21: the fill and the stroke colour of a point are
\* colors[cluster_id mod colors.length] for every cluster_id from 0 on; any
\* point with the same cluster_id gets the same colour, hovered or not and
\* whatever its other fields and the selection.
C21_ColorOfClusterId ==
    (call.fn = "color" /\ call.done) =>
        /\ call.out.stroke = colors[(call.in.p.cluster_id % PaletteLength) + 1]
        /\ call.out.fill.rgb = call.out.stroke
        /\ \A q \in ColorInputs :
              q.p.cluster_id = call.in.p.cluster_id =>
                  /\ Stroke(q.p) = call.out.stroke
                  /\ Fill(q.p, q.sel).rgb = call.out.fill.rgb

\* C21 witness: the colour of a hovered point whose cluster_id is beyond the
\* length of the palette, drawn while another cluster is selected.
C21_Witness ==
    /\ call.fn = "color" /\ call.done
    /\ call.in.p.cluster_id > PaletteLength
    /\ call.in.hovered
    /\ call.in.sel # NULL /\ call.in.sel # call.in.p.cluster_id
    /\ call.out.stroke = colors[call.in.p.cluster_id - PaletteLength + 1]

\* C22: for each key k of clusters with at least one point, the centre of k
\* is the arithmetic mean of the x and of the y of exactly the points whose
\* cluster_id is k, and the label of k is at (xScale(mean x), yScale(mean y));
\* for the points (0,0), (2,0), (1,2) the centre is (1, 2/3).
C22_CentroidLabel ==
    (call.fn = "centroid" /\ call.done) =>
        LET pts == call.in.points
            xs == [i \in 1 .. Len(pts) |-> pts[i].x]
            ys == [i \in 1 .. Len(pts) |-> pts[i].y]
        IN  /\ \A k \in call.in.clusters :
                  LET S == { i \in 1 .. Len(pts) : pts[i].cluster_id = k }
                      n == Cardinality(S)
                      c == call.out[k]
                      px == ScaleLinear(<< XExtent(pts)[1] * n,
                                           XExtent(pts)[2] * n >>,
                                        XRange, Sum(xs, S))
                      py == ScaleLinear(<< YExtent(pts)[1] * n,
                                           YExtent(pts)[2] * n >>,
                                        YRange, Sum(ys, S))
                  IN  n > 0 =>
                        /\ c.x.den > 0 /\ c.y.den > 0
                        /\ c.x.num * n = Sum(xs, S) * c.x.den
                        /\ c.y.num * n = Sum(ys, S) * c.y.den
                        /\ c.labelX.num * px.den = px.num * c.labelX.den
                        /\ c.labelY.num * py.den = py.num * c.labelY.den
            /\ call.in = CentroidExample =>
                  /\ FracIs(call.out[0].x, 1)
                  /\ 3 * call.out[0].y.num = 2 * call.out[0].y.den

\* C22 witness: the centre of the three points (0,0), (2,0), (1,2).
C22_Witness ==
    /\ call.fn = "centroid" /\ call.done
    /\ call.in = CentroidExample
    /\ call.out[0].size = 3

\* C23: the Keywords line of a hovered point with n keywords lists its first
\* min(3, n) keywords, in their order, and nothing else; an empty list gives
\* an empty line.
C23_FirstThreeKeywords ==
    (call.fn = "keywords" /\ call.done) =>
        LET n == Len(call.in)
            m == IF n < 3 THEN n ELSE 3
        IN  \A line \in {call.out.tooltip, call.out.panel} :
                /\ Len(line) = IF m = 0 THEN 0 ELSE 2 * m - 1
                /\ \A j \in 1 .. m : line[2 * j - 1] = call.in[j]
                /\ \A j \in 1 .. m - 1 : line[2 * j] = ", "

\* C23 witness: the line of the keywords a, b, c, d.
C23_Witness ==
    /\ call.fn = "keywords" /\ call.done
    /\ call.in = << "a", "b", "c", "d" >>
    /\ call.out.tooltip = << "a", ", ", "b", ", ", "c" >>

\* C24: the radius is 4 + min(citation_count / 100, 3), and 4 when
\* citation_count is absent; it does not decrease when citation_count grows,
\* and it is 7 from 300 citations on.  (Hundredths of a pixel.)
C24_RadiusFormula ==
    (call.fn = "radius" /\ call.done) =>
        /\ call.in = NULL => call.out = 400
        /\ call.in # NULL =>
              /\ call.out = 400 + (IF call.in < 300 THEN call.in ELSE 300)
              /\ \A c2 \in 0 .. MaxCitations :
                    call.in <= c2 => call.out <= Radius(c2)
              /\ call.in >= 300 => call.out = 700

\* C24 witness: the radius of a point with 150 citations is 5.5.
C24_Witness ==
    /\ call.fn = "radius" /\ call.done
    /\ call.in = 150
    /\ call.out = 550

\* C25: while the snapshot's points are empty, with a message or without, the
\* effect of the last event did not go past its guard: it computed no extent
\* and no scale and created no tooltip node, and no tooltip node is attached.
C25_NoScalesOverEmptyPoints ==
    (mounted /\ Len(data.points) = 0) =>
        /\ effectTrace # "draw"
        /\ Attached(overlays) = {}
        /\ cleanup = 0

\* C25 witness: the effect ran for a snapshot with no points and no message,
\* the svg being rendered, and returned at its guard.
C25_Witness ==
    /\ mounted /\ svgRef
    /\ Len(data.points) = 0 /\ data.message = {}
    /\ effectTrace = "guard"

\* C26: at most one tooltip node is attached to the document, after any
\* sequence of mounts, selection changes, snapshot replacements and unmounts.
C26_OneOverlay == Cardinality(Attached(overlays)) <= 1

\* C26 witness: the effect has drawn again after a point was hovered, so the
\* tooltip shown for that point was replaced by a new one.
C26_Witness ==
    /\ mounted /\ effectTrace = "draw"
    /\ hoveredPoint # NullPoint
    /\ Cardinality(Attached(overlays)) = 1
    /\ \A n \in Attached(overlays) : overlays[n].html = NullPoint

\* C27: whenever a point can be clicked, the selectedCluster its click
\* handler closed over is the current selectedCluster, so a click on a point
\* of cluster k toggles as a click on the legend tile of k does.
C27_NoStaleSelection ==
    (mounted /\ svgRef /\ Len(circles) > 0) =>
        /\ handlerEnv.selectedCluster = selectedCluster
        /\ \A i \in 1 .. Len(circles) :
              Toggle(handlerEnv.selectedCluster, circles[i].d.cluster_id)
                  = Toggle(selectedCluster, circles[i].d.cluster_id)

\* C28: selectedCluster is none or a cluster id of the current snapshot (the
\* cluster_id of one of its points or a key of its clusters), and
\* hoveredPoint is none or a point of the current snapshot.
C28_StateOfCurrentSnapshot ==
    mounted =>
        /\ \/ selectedCluster = NULL
           \/ selectedCluster \in data.clusters
           \/ \E i \in 1 .. Len(data.points) :
                 data.points[i].cluster_id = selectedCluster
        /\ \/ hoveredPoint = NullPoint
           \/ \E i \in 1 .. Len(data.points) : data.points[i] = hoveredPoint

\* C29: in App, results and error are never both set; while a request is in
\* flight both are null; loading is true exactly while a request is in
\* flight; and the step that ends a request, in success or in failure,
\* leaves loading false.
C29_SearchFlow ==
    /\ [] ( /\ ~(app.results # {} /\ app.error # {})
            /\ app.inFlight # {} => (app.results = {} /\ app.error = {})
            /\ app.loading <=> app.inFlight # {} )
    /\ [][ (app.inFlight # {} /\ app'.inFlight = {}) => ~app'.loading ]_vars

\* C29 witness: a search for a query typed with white space around it has
\* failed, after which error is set and results and loading are not.
C29_Witness ==
    /\ app.query.padded /\ Trim(app.query) # ""
    /\ app.error # {} /\ app.results = {}
    /\ ~app.loading /\ app.inFlight = {}

\* C30: in ExportButtons the timer of a copy clears `copied` only if that
\* copy set it: the timer of an earlier copy leaves the indicator of a later
\* copy alone; and when no write is in flight and no timer is left, copied is
\* null.
C30_TimerOfSameCopy ==
    /\ [][ ( /\ TimerFires
             /\ exportButtons.copied # {}
             /\ exportButtons.copiedBy # Head(exportButtons.timers) )
           => exportButtons'.copied = exportButtons.copied ]_vars
    /\ [] ( (exportButtons.timers = << >> /\ exportButtons.writes = {})
               => exportButtons.copied = {} )

====
